---------------------------- MODULE Spec2Model ----------------------------
(***************************************************************************)
(* Model of the command-dispatch / correlate / poll / extract pipeline of  *)
(* src/src/github/handlers/issue-comment/created.ts.                       *)
(*                                                                         *)
(* Strings are tuples of one-character strings, so that the regular        *)
(* expression of commentParser and the eventType derivation of             *)
(* pluginDispatch are computed character by character.                     *)
(*                                                                         *)
(* An invocation of issueCommentCreated is a sequential process whose      *)
(* atomic steps are the stretches of code between two awaits.  The remote  *)
(* execution system (the run history behind the REST API) is a second      *)
(* party that accepts dispatch events, creates runs and advances them.     *)
(***************************************************************************)
EXTENDS Integers, Sequences, FiniteSets, TLC

VARIABLES
    runs,       \* remote run history, most recent first
    pending,    \* dispatch events accepted by the remote, no run created yet
    nextRunId,  \* id the remote gives to the next run it creates
    script,     \* scripted status responses of a stubbed status endpoint
    pc,         \* per invocation: the await it is suspended at
    inv,        \* per invocation: the locals of the handler
    calls,      \* per invocation: the remote calls issued so far, in order
    observed    \* per invocation: the statuses the poller has read, in order

vars == <<runs, pending, nextRunId, script, pc, inv, calls, observed>>

-----------------------------------------------------------------------------
(* Bounds of the model. *)

\* longest free-text body enumerated character by character
MaxText == 3
\* longest command list enumerated for the resolver
MaxCommands == 2
\* longest run history enumerated for the locator
MaxHistory == 6
\* longest step list enumerated for the extractor
MaxSteps == 3
\* longest scripted status sequence, and the cap on status checks of one poll
MaxChecks == 4
\* the cap on status checks of each of two concurrent invocations
MaxRaceChecks == 2
\* longest display name enumerated character by character
MaxName == 3

-----------------------------------------------------------------------------
(* Characters and strings. *)

\* characters matched by \w in a JavaScript regular expression
WordChars == {"a", "e", "h", "k", "l", "m", "n", "o", "p", "s", "u",
              "A", "H", "M", "0", "_"}

\* characters matched by \s: the space and the tab stand for the class
SpaceChars == {" ", "\t"}

IsWordChar(c) == c \in WordChars

\* String.prototype.toLowerCase on one character
LowerChar(c) ==
    CASE c = "A" -> "a"
      [] c = "H" -> "h"
      [] c = "M" -> "m"
      [] OTHER -> c

\* the texts enumerated exhaustively are over this alphabet:
\* one non-word character, one word character, one space
TextAlphabet == {"/", "h", " "}

RECURSIVE StringsUpTo(_, _)
StringsUpTo(alphabet, n) ==
    IF n = 0 THEN {<<>>}
    ELSE LET shorter == StringsUpTo(alphabet, n - 1)
         IN  shorter \cup {Append(s, c) : s \in shorter, c \in alphabet}

RECURSIVE SeqsUpTo(_, _)
SeqsUpTo(S, n) ==
    IF n = 0 THEN {<<>>}
    ELSE LET shorter == SeqsUpTo(S, n - 1)
         IN  shorter \cup {Append(s, x) : s \in shorter, x \in S}

Prefix(s, n) == SubSeq(s, 1, n)

Range(s) == {s[k] : k \in 1..Len(s)}

-----------------------------------------------------------------------------
(* CommandResolver: commentParser and the lookup of issueCommentCreated.   *)
(*                                                                         *)
(* A command string is the SOURCE of a regular expression.  The fragment   *)
(* modelled is: a literal character matches itself, "." matches any one    *)
(* character.  Every pattern of the fragment matches a fixed number of     *)
(* characters, so the alternation ^(c1|c2|...)\b, tried left to right with *)
(* backtracking, matches with the first alternative that matches at        *)
(* position 0 and is followed by a word boundary.                          *)

\* one pattern character against one text character
CharMatches(p, c) == p = "." \/ p = c

\* pattern pat matches the first Len(pat) characters of body
PatternMatchesPrefix(pat, body) ==
    /\ Len(pat) <= Len(body)
    /\ \A k \in 1..Len(pat) : CharMatches(pat[k], body[k])

\* faulty variant: the assertion \b left out of the expression
WordBoundaryDropped(body, n) == TRUE

\* \b after the first n characters of body
WordBoundaryAt(body, n) ==
    LET before == n >= 1 /\ IsWordChar(body[n])
        after  == n < Len(body) /\ IsWordChar(body[n + 1])
    IN  before # after

\* pluginCommands.join("|") inside ^( ... ): an empty list joins to the
\* empty string, which is one empty alternative
Alternatives(pluginCommands) ==
    IF pluginCommands = <<>> THEN << <<>> >> ELSE pluginCommands

AlternativeMatches(pat, body) ==
    /\ PatternMatchesPrefix(pat, body)
    /\ WordBoundaryAt(body, Len(pat))

NoMatch == [matched |-> FALSE, text |-> <<>>]

\* faulty variant: the last alternative that matches wins
RegexExecLastWins(pluginCommands, body) ==
    LET alts == Alternatives(pluginCommands)
        hits == {k \in 1..Len(alts) : AlternativeMatches(alts[k], body)}
    IN  IF hits = {} THEN NoMatch
        ELSE LET last == CHOOSE k \in hits : \A j \in hits : k >= j
             IN  [matched |-> TRUE, text |-> Prefix(body, Len(alts[last]))]

\* regex.exec(body): matches[0] of the first alternative that matches
RegexExec(pluginCommands, body) ==
    LET alts == Alternatives(pluginCommands)
        hits == {k \in 1..Len(alts) : AlternativeMatches(alts[k], body)}
    IN  IF hits = {} THEN NoMatch
        ELSE LET first == CHOOSE k \in hits : \A j \in hits : k <= j
             IN  [matched |-> TRUE, text |-> Prefix(body, Len(alts[first]))]

\* the result of commentParser: null, or the command string
Null == [isNull |-> TRUE, command |-> <<>>]

Command(c) == [isNull |-> FALSE, command |-> c]

commentParser(body, plugins) ==
    LET pluginCommands == [k \in 1..Len(plugins) |-> plugins[k].command]
        matches == RegexExec(pluginCommands, body)
    IN  IF matches.matched /\ matches.text \in Range(pluginCommands)
        THEN Command(matches.text)
        ELSE Null

\* plugins.find((cmd) => cmd.command === command): index of the handler, 0 if none
FindHandler(plugins, command) ==
    LET same == {k \in 1..Len(plugins) : plugins[k].command = command}
    IN  IF same = {} THEN 0 ELSE CHOOSE k \in same : \A j \in same : k <= j

\* !command of a string: null and the empty string are both falsy
Falsy(parsed) == parsed.isNull \/ parsed.command = <<>>

\* the whole resolver as issueCommentCreated uses it: index of the plugin
\* handed to pluginDispatch, 0 when the handler returns early
Resolve(body, plugins) ==
    LET parsed == commentParser(body, plugins)
    IN  IF Falsy(parsed) THEN 0 ELSE FindHandler(plugins, parsed.command)

-----------------------------------------------------------------------------
(* eventType of pluginDispatch. *)

\* faulty variant: spaces are kept
KeepChar(c) == c

\* .replace(/\s/g, "-") on one character
HyphenateChar(c) == IF c \in SpaceChars THEN "-" ELSE c

\* plugin.name.toLowerCase().replace(/\s/g, "-")
EventTypeOf(name) == [k \in 1..Len(name) |-> HyphenateChar(LowerChar(name[k]))]

-----------------------------------------------------------------------------
(* RunLocator: fetchInvokedPluginRunner and fetchInProgressRunsBatch5.     *)
(* A run is [id, name, status, jobs, cause]; cause is the invocation whose *)
(* dispatch made the remote create it ("none" for a run that was there     *)
(* before), and is not visible to the handler.                             *)

Statuses == {"queued", "in_progress", "completed"}

\* .slice(0, 5)
BatchSize == 5

\* faulty variant: the slice keeps one run more
SliceOneMore(s, n) == SubSeq(s, 1, IF Len(s) < n + 1 THEN Len(s) ELSE n + 1)

Slice(s, n) == SubSeq(s, 1, IF Len(s) < n THEN Len(s) ELSE n)

\* faulty variant: the name filter left out
fetchInvokedPluginRunnerAnyName(workflow_runs, eventType) ==
    Slice(workflow_runs, BatchSize)

\* data.workflow_runs.filter((run) => run.name === eventType).slice(0, 5)
fetchInvokedPluginRunner(workflow_runs, eventType) ==
    LET Named(run) == run.name = eventType
    IN  Slice(SelectSeq(workflow_runs, Named), BatchSize)

\* faulty variant: the filter of fetchUncompletedRunsBatch5 used in its place
fetchUncompletedRunsBatch5(workflow_runs, eventType) ==
    LET Uncompleted(run) == run.status # "completed"
    IN  SelectSeq(fetchInvokedPluginRunner(workflow_runs, eventType), Uncompleted)

\* faulty variant: the filter on the status left out
fetchAnyStatusRunsBatch5(workflow_runs, eventType) ==
    fetchInvokedPluginRunner(workflow_runs, eventType)

\* runs.filter((run) => run.status === "in_progress")
fetchInProgressRunsBatch5(workflow_runs, eventType) ==
    LET InProgress(run) == run.status = "in_progress"
    IN  SelectSeq(fetchInvokedPluginRunner(workflow_runs, eventType), InProgress)

-----------------------------------------------------------------------------
(* OutputExtractor: the reduce of fetchRunLogs.                            *)
(* A step is [conclusion, hasOutputs, outputs]: hasOutputs is FALSE for a  *)
(* step whose outputs field is undefined or null; outputs is a function    *)
(* from the keys it declares to their values.                              *)

EmptyMap == [k \in {} |-> ""]

\* faulty variant: a key already in the accumulator is not overwritten
AssignMissing(acc, outputs) ==
    [k \in (DOMAIN acc) \cup (DOMAIN outputs) |->
        IF k \in DOMAIN acc THEN acc[k] ELSE outputs[k]]

\* Object.keys(step.outputs).forEach((key) => acc[key] = step.outputs[key])
AssignAll(acc, outputs) ==
    [k \in (DOMAIN acc) \cup (DOMAIN outputs) |->
        IF k \in DOMAIN outputs THEN outputs[k] ELSE acc[k]]

\* faulty variant: the test of the conclusion left out
ReduceStepAnyConclusion(acc, step) ==
    IF step.hasOutputs THEN AssignAll(acc, step.outputs) ELSE acc

\* the reducer: one step folded into the accumulator
ReduceStep(acc, step) ==
    IF step.conclusion = "success" /\ step.hasOutputs
    THEN AssignAll(acc, step.outputs)
    ELSE acc

\* jobDetails.steps.reduce(reducer, {})
RECURSIVE ReduceFrom(_, _)
ReduceFrom(acc, steps) ==
    IF steps = <<>> THEN acc
    ELSE ReduceFrom(ReduceStep(acc, Head(steps)), Tail(steps))

ReduceSteps(steps) == ReduceFrom(EmptyMap, steps)

\* the id the remote gives the k-th job of run runId
JobIdOf(runId, k) == runId * 10 + k

-----------------------------------------------------------------------------
(* Inputs of the pipeline model. *)

\* the invocations of the pipeline model
Invocations == {"i1"}

\* userCommands[0]
HelpMenu ==
    [name    |-> <<"H", "e", "l", "p", " ", "M", "e", "n", "u">>,
     command |-> <<"/", "h", "e", "l", "p">>]

\* a second configured plugin
Ask == [name |-> <<"A", "s", "k">>, command |-> <<"/", "a", "s", "k">>]

\* configuration.plugins?.ISSUE_COMMENT_CREATED: absent, or a list of plugins
AbsentPlugins == [present |-> FALSE, plugins |-> <<>>]

Configured(list) == [present |-> TRUE, plugins |-> list]

Configurations ==
    {AbsentPlugins, Configured(<<>>), Configured(<<HelpMenu>>),
     Configured(<<HelpMenu, Ask>>)}

\* event.payload.comment.body
Bodies ==
    {<<"/", "h", "e", "l", "p">>,
     <<"/", "h", "e", "l", "p", "m", "e">>,
     <<"/", "a", "s", "k">>,
     <<"h", "e", "l", "l", "o">>}

Step(conclusion, hasOutputs, outputs) ==
    [conclusion |-> conclusion, hasOutputs |-> hasOutputs, outputs |-> outputs]

Map1(k, v) == [x \in {k} |-> v]

Map2(k1, v1, k2, v2) == [x \in {k1, k2} |-> IF x = k1 THEN v1 ELSE v2]

AnswerSteps == <<Step("success", TRUE, Map1("answer", "42"))>>

ExampleSteps ==
    <<Step("success", TRUE, Map1("a", "1")),
      Step("failure", TRUE, Map1("a", "2")),
      Step("success", TRUE, Map2("a", "3", "b", "4"))>>

\* the job lists a run of the pipeline model can have: each job is its steps
JobLists == {<<>>, <<AnswerSteps>>, <<ExampleSteps, AnswerSteps>>}

Run(id, name, status, jobs, cause) ==
    [id |-> id, name |-> name, status |-> status, jobs |-> jobs, cause |-> cause]

HelpEvent == EventTypeOf(HelpMenu.name)

\* run histories the remote can hold before the first invocation
InitialHistories ==
    {<<>>,
     <<Run(1, HelpEvent, "in_progress", <<AnswerSteps>>, "none")>>,
     <<Run(2, HelpEvent, "completed", <<AnswerSteps>>, "none"),
       Run(1, EventTypeOf(Ask.name), "in_progress", <<ExampleSteps>>, "none")>>}

-----------------------------------------------------------------------------
(* State of one invocation. *)

NotLocated == [returned |-> FALSE, runs |-> <<>>]

Located(found) == [returned |-> TRUE, runs |-> found]

NoOutput == [logged |-> FALSE, value |-> EmptyMap]

Logged(value) == [logged |-> TRUE, value |-> value]

\* what pluginDispatch has returned: "not called", "running", "threw" (the
\* promise rejected), "undefined", or the string "No runs found"; a returned
\* object would be [kind |-> "object", value |-> the mapping]
NoValue(kind) == [kind |-> kind, value |-> EmptyMap]

\* the locals of issueCommentCreated and of the functions it calls;
\* workflow_runs is data.workflow_runs, the listing the run endpoint answered
\* with
FreshLocals ==
    [body        |-> <<>>,
     config      |-> AbsentPlugins,
     handler     |-> 0,
     eventType   |-> <<>>,
     workflow_runs |-> <<>>,
     located     |-> NotLocated,
     runID       |-> 0,
     isCompleted |-> FALSE,
     jobId       |-> 0,
     output      |-> NoOutput,
     ret         |-> NoValue("not called"),
     outcome     |-> "running"]

Call(op, arg) == [op |-> op, arg |-> arg]

Count(i, op) == Cardinality({k \in 1..Len(calls[i]) : calls[i][k].op = op})

Issue(i, op, arg) == calls' = [calls EXCEPT ![i] = Append(@, Call(op, arg))]

\* the places an invocation waits for a remote response
AwaitingFetch == {"dispatch", "listRuns", "getRunStatus", "listJobs", "getJob"}

RunById(id) == LET k == CHOOSE k \in 1..Len(runs) : runs[k].id = id IN runs[k]

HasRun(id) == \E k \in 1..Len(runs) : runs[k].id = id

-----------------------------------------------------------------------------
(* The remote execution system. *)

\* the remote creates the run of an accepted dispatch event
RemoteCreateRun ==
    \E e \in pending, jobs \in JobLists :
        /\ runs' = <<Run(nextRunId, e.name, "queued", jobs, e.cause)>> \o runs
        /\ pending' = pending \ {e}
        /\ nextRunId' = nextRunId + 1
        /\ UNCHANGED <<script, pc, inv, calls, observed>>

\* no workflow listens to the event type: the event causes no run
RemoteDropEvent ==
    \E e \in pending :
        /\ pending' = pending \ {e}
        /\ UNCHANGED <<runs, nextRunId, script, pc, inv, calls, observed>>

NextStatus(status) == IF status = "queued" THEN "in_progress" ELSE "completed"

\* a run moves queued -> in_progress -> completed
RemoteAdvance ==
    \E k \in 1..Len(runs) :
        /\ runs[k].status # "completed"
        /\ runs' = [runs EXCEPT ![k].status = NextStatus(@)]
        /\ UNCHANGED <<pending, nextRunId, script, pc, inv, calls, observed>>

-----------------------------------------------------------------------------
(* issueCommentCreated, one action per stretch between two awaits. *)

Return(i, outcome, ret) ==
    /\ pc' = [pc EXCEPT ![i] = "done"]
    /\ inv' = [inv EXCEPT ![i].outcome = outcome, ![i].ret = NoValue(ret)]

\* faulty variant: the early returns on a missing command left out, so that
\* pluginDispatch reads plugin.name of undefined
StartUnguarded(i, body, config) ==
    /\ pc[i] = "idle"
    /\ LET plugins == config.plugins
           handler == Resolve(body, plugins)
           given   == [inv[i] EXCEPT !.body = body, !.config = config]
       IN  IF ~config.present
           THEN /\ pc' = [pc EXCEPT ![i] = "done"]
                /\ inv' = [inv EXCEPT ![i] = [given EXCEPT !.outcome = "NoPlugins"]]
                /\ UNCHANGED calls
           ELSE IF handler = 0
           THEN /\ pc' = [pc EXCEPT ![i] = "done"]
                /\ inv' = [inv EXCEPT ![i] =
                             [given EXCEPT !.outcome = "TypeError",
                                           !.ret = NoValue("threw")]]
                /\ UNCHANGED calls
           ELSE LET eventType == EventTypeOf(plugins[handler].name)
                IN  /\ pc' = [pc EXCEPT ![i] = "dispatch"]
                    /\ inv' = [inv EXCEPT ![i] =
                                 [given EXCEPT !.handler = handler,
                                               !.eventType = eventType,
                                               !.ret = NoValue("running")]]
                    /\ Issue(i, "dispatch", eventType)
    /\ UNCHANGED <<runs, pending, nextRunId, script, observed>>

\* from the configuration being fetched to the dispatch request being sent
Start(i, body, config) ==
    /\ pc[i] = "idle"
    /\ LET plugins == config.plugins
           parsed  == commentParser(body, plugins)
           handler == Resolve(body, plugins)
           given   == [inv[i] EXCEPT !.body = body, !.config = config]
       IN  IF ~config.present
           THEN /\ pc' = [pc EXCEPT ![i] = "done"]
                /\ inv' = [inv EXCEPT ![i] = [given EXCEPT !.outcome = "NoPlugins"]]
                /\ UNCHANGED calls
           ELSE IF Falsy(parsed)
           THEN /\ pc' = [pc EXCEPT ![i] = "done"]
                /\ inv' = [inv EXCEPT ![i] = [given EXCEPT !.outcome = "NoCommand"]]
                /\ UNCHANGED calls
           ELSE IF handler = 0
           THEN /\ pc' = [pc EXCEPT ![i] = "done"]
                /\ inv' = [inv EXCEPT ![i] = [given EXCEPT !.outcome = "NoHandler"]]
                /\ UNCHANGED calls
           ELSE LET eventType == EventTypeOf(plugins[handler].name)
                IN  /\ pc' = [pc EXCEPT ![i] = "dispatch"]
                    /\ inv' = [inv EXCEPT ![i] =
                                 [given EXCEPT !.handler = handler,
                                               !.eventType = eventType,
                                               !.ret = NoValue("running")]]
                    /\ Issue(i, "dispatch", eventType)
    /\ UNCHANGED <<runs, pending, nextRunId, script, observed>>

\* the dispatch request resolves: the remote has accepted the event, or has
\* answered with an error status, which fetch does not turn into a rejection;
\* pluginDispatch goes on to list the runs either way
DispatchReturn(i, accepted) ==
    /\ pc[i] = "dispatch"
    /\ pending' = IF accepted
                  THEN pending \cup {[name |-> inv[i].eventType, cause |-> i]}
                  ELSE pending
    /\ pc' = [pc EXCEPT ![i] = "listRuns"]
    /\ Issue(i, "listRuns", inv[i].eventType)
    /\ UNCHANGED <<runs, nextRunId, script, inv, observed>>

\* faulty variant: a rejected fetch is sent again
FetchRejectsRetries(i) ==
    /\ pc[i] \in AwaitingFetch
    /\ Issue(i, calls[i][Len(calls[i])].op, calls[i][Len(calls[i])].arg)
    /\ UNCHANGED <<runs, pending, nextRunId, script, pc, inv, observed>>

\* faulty variant: a rejected dispatch is sent once more
FetchRejectsRedispatches(i) ==
    /\ pc[i] \in AwaitingFetch
    /\ IF pc[i] = "dispatch" /\ Count(i, "dispatch") < 2
       THEN /\ Issue(i, "dispatch", inv[i].eventType)
            /\ UNCHANGED <<pc, inv>>
       ELSE /\ Return(i, "FetchRejected", "threw")
            /\ UNCHANGED calls
    /\ UNCHANGED <<runs, pending, nextRunId, script, observed>>

\* any awaited fetch rejects: nothing catches it, the invocation ends
FetchRejects(i) ==
    /\ pc[i] \in AwaitingFetch
    /\ Return(i, "FetchRejected", "threw")
    /\ UNCHANGED <<runs, pending, nextRunId, script, calls, observed>>

\* faulty variant: the test runs.length === 0 left out, so that runs[0].id is read
\* of an empty list
ListReturnUnguarded(i) ==
    /\ pc[i] = "listRuns"
    /\ LET found == fetchInProgressRunsBatch5(runs, inv[i].eventType)
       IN  IF Len(found) = 0
           THEN /\ pc' = [pc EXCEPT ![i] = "done"]
                /\ inv' = [inv EXCEPT ![i].workflow_runs = runs,
                                      ![i].located = Located(found),
                                      ![i].outcome = "TypeError",
                                      ![i].ret = NoValue("threw")]
                /\ UNCHANGED calls
           ELSE /\ pc' = [pc EXCEPT ![i] = "getRunStatus"]
                /\ inv' = [inv EXCEPT ![i].workflow_runs = runs,
                                      ![i].located = Located(found),
                                      ![i].runID = found[1].id]
                /\ Issue(i, "getRunStatus", found[1].id)
    /\ UNCHANGED <<runs, pending, nextRunId, script, observed>>

\* faulty variant: the last run of the list is polled, not runs[0]
ListReturnPollsLast(i) ==
    /\ pc[i] = "listRuns"
    /\ LET found == fetchInProgressRunsBatch5(runs, inv[i].eventType)
       IN  IF Len(found) = 0
           THEN /\ pc' = [pc EXCEPT ![i] = "done"]
                /\ inv' = [inv EXCEPT ![i].workflow_runs = runs,
                                      ![i].located = Located(found),
                                      ![i].outcome = "NoRunsFound",
                                      ![i].ret = NoValue("No runs found")]
                /\ UNCHANGED calls
           ELSE /\ pc' = [pc EXCEPT ![i] = "getRunStatus"]
                /\ inv' = [inv EXCEPT ![i].workflow_runs = runs,
                                      ![i].located = Located(found),
                                      ![i].runID = found[Len(found)].id]
                /\ Issue(i, "getRunStatus", found[Len(found)].id)
    /\ UNCHANGED <<runs, pending, nextRunId, script, observed>>

\* the run list arrives: fetchInProgressRunsBatch5, then the first status check
ListReturn(i) ==
    /\ pc[i] = "listRuns"
    /\ LET found == fetchInProgressRunsBatch5(runs, inv[i].eventType)
       IN  IF Len(found) = 0
           THEN /\ pc' = [pc EXCEPT ![i] = "done"]
                /\ inv' = [inv EXCEPT ![i].workflow_runs = runs,
                                      ![i].located = Located(found),
                                      ![i].outcome = "NoRunsFound",
                                      ![i].ret = NoValue("No runs found")]
                /\ UNCHANGED calls
           ELSE /\ pc' = [pc EXCEPT ![i] = "getRunStatus"]
                /\ inv' = [inv EXCEPT ![i].workflow_runs = runs,
                                      ![i].located = Located(found),
                                      ![i].runID = found[1].id]
                /\ Issue(i, "getRunStatus", found[1].id)
    /\ UNCHANGED <<runs, pending, nextRunId, script, observed>>

\* faulty variant: the loop is left after any status
StatusReturnLeavesLoop(i, status) ==
    /\ pc[i] = "getRunStatus"
    /\ observed' = [observed EXCEPT ![i] = Append(@, status)]
    /\ pc' = [pc EXCEPT ![i] = "listJobs"]
    /\ inv' = [inv EXCEPT ![i].isCompleted = TRUE]
    /\ Issue(i, "listJobs", inv[i].runID)

\* one turn of the loop of pollInProgressRunTillCompletion after the status
\* has arrived: leave the loop into fetchRunLogs, or sleep
StatusReturn(i, status) ==
    /\ pc[i] = "getRunStatus"
    /\ observed' = [observed EXCEPT ![i] = Append(@, status)]
    /\ IF status = "completed"
       THEN /\ pc' = [pc EXCEPT ![i] = "listJobs"]
            /\ inv' = [inv EXCEPT ![i].isCompleted = TRUE]
            /\ Issue(i, "listJobs", inv[i].runID)
       ELSE /\ pc' = [pc EXCEPT ![i] = "sleep"]
            /\ UNCHANGED <<inv, calls>>

\* the status of the polled run as the remote holds it
PollReturn(i) ==
    /\ pc[i] = "getRunStatus"
    /\ HasRun(inv[i].runID)
    /\ StatusReturn(i, RunById(inv[i].runID).status)
    /\ UNCHANGED <<runs, pending, nextRunId, script>>

\* faulty variant: after the sleep the runs are listed again
TimerFiresRelists(i) ==
    /\ pc[i] = "sleep"
    /\ Count(i, "listRuns") < MaxChecks
    /\ pc' = [pc EXCEPT ![i] = "listRuns"]
    /\ Issue(i, "listRuns", inv[i].eventType)
    /\ UNCHANGED <<runs, pending, nextRunId, script, inv, observed>>

\* the 15 s timer fires: the next status check is sent
TimerFires(i) ==
    /\ pc[i] = "sleep"
    /\ Count(i, "getRunStatus") < MaxChecks
    /\ pc' = [pc EXCEPT ![i] = "getRunStatus"]
    /\ Issue(i, "getRunStatus", inv[i].runID)
    /\ UNCHANGED <<runs, pending, nextRunId, script, inv, observed>>

\* faulty variant: the last job of the list is fetched, not jobs[0]
JobsReturnLastJob(i) ==
    /\ pc[i] = "listJobs"
    /\ HasRun(inv[i].runID)
    /\ LET jobs == RunById(inv[i].runID).jobs
       IN  IF Len(jobs) = 0
           THEN /\ Return(i, "TypeError", "threw")
                /\ UNCHANGED calls
           ELSE /\ pc' = [pc EXCEPT ![i] = "getJob"]
                /\ inv' = [inv EXCEPT ![i].jobId = JobIdOf(inv[i].runID, Len(jobs))]
                /\ Issue(i, "getJob", JobIdOf(inv[i].runID, Len(jobs)))
    /\ UNCHANGED <<runs, pending, nextRunId, script, observed>>

\* fetchRunLogs after the job list has arrived: jobsData.jobs[0].id
JobsReturn(i) ==
    /\ pc[i] = "listJobs"
    /\ HasRun(inv[i].runID)
    /\ LET jobs == RunById(inv[i].runID).jobs
       IN  IF Len(jobs) = 0
           THEN \* jobs[0] is undefined: reading .id throws a TypeError
                /\ Return(i, "TypeError", "threw")
                /\ UNCHANGED calls
           ELSE /\ pc' = [pc EXCEPT ![i] = "getJob"]
                /\ inv' = [inv EXCEPT ![i].jobId = JobIdOf(inv[i].runID, 1)]
                /\ Issue(i, "getJob", JobIdOf(inv[i].runID, 1))
    /\ UNCHANGED <<runs, pending, nextRunId, script, observed>>

\* the steps of the job the remote holds under a job id
StepsOfJob(jobId) == RunById(jobId \div 10).jobs[jobId % 10]

\* faulty variant: the run is deleted once its output has been read
JobReturnDeletesRun(i) ==
    /\ pc[i] = "getJob"
    /\ HasRun(inv[i].jobId \div 10)
    /\ pc' = [pc EXCEPT ![i] = "done"]
    /\ inv' = [inv EXCEPT ![i].output = Logged(ReduceSteps(StepsOfJob(inv[i].jobId))),
                          ![i].outcome = "Completed",
                          ![i].ret = NoValue("undefined")]
    /\ LET Others(run) == run.id # inv[i].runID
       IN  runs' = SelectSeq(runs, Others)
    /\ UNCHANGED <<pending, nextRunId, script, calls, observed>>

\* fetchRunLogs after the job details have arrived, and the rest of
\* pluginDispatch: the output is logged, nothing is returned
JobReturn(i) ==
    /\ pc[i] = "getJob"
    /\ HasRun(inv[i].jobId \div 10)
    /\ pc' = [pc EXCEPT ![i] = "done"]
    /\ inv' = [inv EXCEPT ![i].output = Logged(ReduceSteps(StepsOfJob(inv[i].jobId))),
                          ![i].outcome = "Completed",
                          ![i].ret = NoValue("undefined")]
    /\ UNCHANGED <<runs, pending, nextRunId, script, calls, observed>>

-----------------------------------------------------------------------------
(* The pipeline: invocations against the remote system. *)

Init ==
    /\ runs \in InitialHistories
    /\ pending = {}
    /\ nextRunId = Len(runs) + 1
    /\ script = <<>>
    /\ pc = [i \in Invocations |-> "idle"]
    /\ inv = [i \in Invocations |-> FreshLocals]
    /\ calls = [i \in Invocations |-> <<>>]
    /\ observed = [i \in Invocations |-> <<>>]

Next ==
    \/ RemoteCreateRun
    \/ RemoteDropEvent
    \/ RemoteAdvance
    \/ \E i \in DOMAIN pc :
           /\ pc[i] = "idle"
           /\ \E body \in Bodies, config \in Configurations :
                 Start(i, body, config)
    \/ \E i \in DOMAIN pc, accepted \in BOOLEAN : DispatchReturn(i, accepted)
    \/ \E i \in DOMAIN pc : FetchRejects(i)
    \/ \E i \in DOMAIN pc : ListReturn(i)
    \/ \E i \in DOMAIN pc : PollReturn(i)
    \/ \E i \in DOMAIN pc : TimerFires(i)
    \/ \E i \in DOMAIN pc : JobsReturn(i)
    \/ \E i \in DOMAIN pc : JobReturn(i)

Spec == Init /\ [][Next]_vars

\* the steps invocation i takes when the response or the timer it awaits
\* arrives
Continue(i) ==
    \/ \E accepted \in BOOLEAN : DispatchReturn(i, accepted)
    \/ FetchRejects(i)
    \/ ListReturn(i)
    \/ PollReturn(i)
    \/ TimerFires(i)
    \/ JobsReturn(i)
    \/ JobReturn(i)

\* every awaited fetch settles and every timer fires: an invocation that can
\* continue does
FairSpec == Spec /\ \A i \in Invocations : WF_vars(Continue(i))

-----------------------------------------------------------------------------
(* The pipeline with a poller that is followed without end: once the call  *)
(* log and the status history of an invocation hold MaxChecks status       *)
(* checks they are full; a further check is not logged, and the status it  *)
(* observes replaces the last entry of the history.                        *)

\* faulty variant: the poller gives up after MaxChecks status checks
TimerFiresGivesUp(i) ==
    /\ pc[i] = "sleep"
    /\ Count(i, "getRunStatus") = MaxChecks
    /\ Return(i, "TimedOut", "undefined")
    /\ UNCHANGED <<runs, pending, nextRunId, script, calls, observed>>

\* the 15 s timer fires after MaxChecks status checks: the next one is sent
TimerFiresAgain(i) ==
    /\ pc[i] = "sleep"
    /\ Count(i, "getRunStatus") = MaxChecks
    /\ pc' = [pc EXCEPT ![i] = "getRunStatus"]
    /\ UNCHANGED <<runs, pending, nextRunId, script, inv, calls, observed>>

\* the status of a check within the first MaxChecks arrives
PollReturnLogged(i) ==
    /\ Len(observed[i]) < Count(i, "getRunStatus")
    /\ PollReturn(i)

\* the status of a later check arrives: one turn of the loop
PollReturnAgain(i) ==
    /\ pc[i] = "getRunStatus"
    /\ Len(observed[i]) = Count(i, "getRunStatus")
    /\ HasRun(inv[i].runID)
    /\ LET status == RunById(inv[i].runID).status
       IN  /\ observed' = [observed EXCEPT ![i][Len(observed[i])] = status]
           /\ IF status = "completed"
              THEN /\ pc' = [pc EXCEPT ![i] = "listJobs"]
                   /\ inv' = [inv EXCEPT ![i].isCompleted = TRUE]
                   /\ Issue(i, "listJobs", inv[i].runID)
              ELSE /\ pc' = [pc EXCEPT ![i] = "sleep"]
                   /\ UNCHANGED <<inv, calls>>
    /\ UNCHANGED <<runs, pending, nextRunId, script>>

NextUncapped ==
    \/ RemoteCreateRun
    \/ RemoteDropEvent
    \/ RemoteAdvance
    \/ \E i \in DOMAIN pc :
           /\ pc[i] = "idle"
           /\ \E body \in Bodies, config \in Configurations :
                 Start(i, body, config)
    \/ \E i \in DOMAIN pc, accepted \in BOOLEAN : DispatchReturn(i, accepted)
    \/ \E i \in DOMAIN pc : FetchRejects(i)
    \/ \E i \in DOMAIN pc : ListReturn(i)
    \/ \E i \in DOMAIN pc : PollReturnLogged(i)
    \/ \E i \in DOMAIN pc : PollReturnAgain(i)
    \/ \E i \in DOMAIN pc : TimerFires(i)
    \/ \E i \in DOMAIN pc : TimerFiresAgain(i)
    \/ \E i \in DOMAIN pc : JobsReturn(i)
    \/ \E i \in DOMAIN pc : JobReturn(i)

ContinueUncapped(i) ==
    \/ \E accepted \in BOOLEAN : DispatchReturn(i, accepted)
    \/ FetchRejects(i)
    \/ ListReturn(i)
    \/ PollReturnLogged(i)
    \/ PollReturnAgain(i)
    \/ TimerFires(i)
    \/ TimerFiresAgain(i)
    \/ JobsReturn(i)
    \/ JobReturn(i)

\* every awaited fetch settles and every timer fires; the remote is free to
\* leave a run in its status for ever
UncappedSpec ==
    /\ Init
    /\ [][NextUncapped]_vars
    /\ \A i \in Invocations : WF_vars(ContinueUncapped(i))

-----------------------------------------------------------------------------
(* The resolver on its own: every short text against every short list of   *)
(* commands.                                                               *)

\* command strings: literals, patterns with a wildcard, the empty string
Patterns ==
    {<<>>, <<"/">>, <<"h">>, <<"/", "h">>, <<"/", ".">>, <<".", "h">>,
     <<"/", "h", "h">>, <<"/", "h", ".">>, HelpMenu.command}

Texts == StringsUpTo(TextAlphabet, MaxText) \cup Bodies

CommandPlugin(c) == [name |-> Ask.name, command |-> c]

CommandLists ==
    {[k \in 1..Len(cs) |-> CommandPlugin(cs[k])] : cs \in SeqsUpTo(Patterns, MaxCommands)}

InitIdle ==
    /\ runs = <<>>
    /\ pending = {}
    /\ nextRunId = 1
    /\ script = <<>>
    /\ pc = [i \in Invocations |-> "idle"]
    /\ inv = [i \in Invocations |-> FreshLocals]
    /\ calls = [i \in Invocations |-> <<>>]
    /\ observed = [i \in Invocations |-> <<>>]

NextResolve ==
    \E i \in DOMAIN pc :
        /\ pc[i] = "idle"
        /\ \E body \in Texts, list \in CommandLists :
              Start(i, body, Configured(list))

SpecResolve == InitIdle /\ [][NextResolve]_vars

-----------------------------------------------------------------------------
(* The locator on its own: every short run history, listed by an           *)
(* invocation that has dispatched.                                         *)

TwoPlugins == <<HelpMenu, Ask>>

\* the locals of an invocation that matched plugin k of TwoPlugins
LocalsAfterDispatch(k) ==
    [FreshLocals EXCEPT !.body = TwoPlugins[k].command,
                        !.config = Configured(TwoPlugins),
                        !.handler = k,
                        !.eventType = EventTypeOf(TwoPlugins[k].name),
                        !.ret = NoValue("running")]

CallsAfterDispatch(k) ==
    <<Call("dispatch", EventTypeOf(TwoPlugins[k].name)),
      Call("listRuns", EventTypeOf(TwoPlugins[k].name))>>

RunKinds ==
    {[name |-> HelpEvent, status |-> st] : st \in Statuses}
        \cup {[name |-> EventTypeOf(Ask.name), status |-> st] :
                 st \in {"in_progress", "completed"}}

\* a history of the given kinds, most recent first, ids descending
HistoryOf(kinds) ==
    [k \in 1..Len(kinds) |->
        Run(Len(kinds) - k + 1, kinds[k].name, kinds[k].status,
            <<AnswerSteps>>, "none")]

Histories == {HistoryOf(kinds) : kinds \in SeqsUpTo(RunKinds, MaxHistory)}

InitLocate ==
    /\ runs \in Histories
    /\ pending = {}
    /\ nextRunId = Len(runs) + 1
    /\ script = <<>>
    /\ \E k \in 1..2 :
          /\ inv = [i \in Invocations |-> LocalsAfterDispatch(k)]
          /\ calls = [i \in Invocations |-> CallsAfterDispatch(k)]
    /\ pc = [i \in Invocations |-> "listRuns"]
    /\ observed = [i \in Invocations |-> <<>>]

NextLocate == \E i \in DOMAIN pc : ListReturn(i)

SpecLocate == InitLocate /\ [][NextLocate]_vars

-----------------------------------------------------------------------------
(* The poller on its own, against a status endpoint that answers from a    *)
(* script.                                                                 *)

PolledRun == Run(1, HelpEvent, "in_progress", <<AnswerSteps>>, "none")

LocalsPolling ==
    [LocalsAfterDispatch(1) EXCEPT !.workflow_runs = <<PolledRun>>,
                                   !.located = Located(<<PolledRun>>),
                                   !.runID = PolledRun.id]

Scripts == SeqsUpTo(Statuses, MaxChecks)

InitPoll ==
    /\ runs = <<PolledRun>>
    /\ pending = {}
    /\ nextRunId = 2
    /\ script \in Scripts
    /\ pc = [i \in Invocations |-> "getRunStatus"]
    /\ inv = [i \in Invocations |-> LocalsPolling]
    /\ calls = [i \in Invocations |->
                  Append(CallsAfterDispatch(1), Call("getRunStatus", PolledRun.id))]
    /\ observed = [i \in Invocations |-> <<>>]

\* the stubbed endpoint answers with the next status of the script
ScriptedReturn(i) ==
    /\ script # <<>>
    /\ StatusReturn(i, Head(script))
    /\ script' = Tail(script)
    /\ UNCHANGED <<runs, pending, nextRunId>>

NextPoll ==
    \/ \E i \in DOMAIN pc : ScriptedReturn(i)
    \/ \E i \in DOMAIN pc : TimerFires(i)
    \/ \E i \in DOMAIN pc : JobsReturn(i)
    \/ \E i \in DOMAIN pc : JobReturn(i)

SpecPoll == InitPoll /\ [][NextPoll]_vars

-----------------------------------------------------------------------------
(* The extractor on its own: every short list of steps as the first job of *)
(* a completed run.                                                        *)

Conclusions == {"success", "failure"}

OutputChoices ==
    {EmptyMap, Map1("a", "1"), Map1("a", "2"), Map1("b", "4"),
     Map2("a", "3", "b", "4")}

StepChoices ==
    {Step(c, TRUE, o) : c \in Conclusions, o \in OutputChoices}
        \cup {Step(c, FALSE, EmptyMap) : c \in Conclusions}

StepLists == SeqsUpTo(StepChoices, MaxSteps)

LocalsExtracting ==
    [LocalsPolling EXCEPT !.located = Located(<<PolledRun>>),
                          !.isCompleted = TRUE]

\* the jobs a run can have after its first
OtherJobs == {<<>>, <<AnswerSteps>>, <<ExampleSteps, AnswerSteps>>}

InitExtract ==
    /\ \E steps \in StepLists, others \in OtherJobs :
          runs = <<Run(1, HelpEvent, "completed", <<steps>> \o others, "none")>>
    /\ pending = {}
    /\ nextRunId = 2
    /\ script = <<>>
    /\ pc = [i \in Invocations |-> "listJobs"]
    /\ inv = [i \in Invocations |-> LocalsExtracting]
    /\ calls = [i \in Invocations |->
                  CallsAfterDispatch(1) \o
                      <<Call("getRunStatus", 1), Call("listJobs", 1)>>]
    /\ observed = [i \in Invocations |-> <<"completed">>]

NextExtract ==
    \/ \E i \in DOMAIN pc : JobsReturn(i)
    \/ \E i \in DOMAIN pc : JobReturn(i)

SpecExtract == InitExtract /\ [][NextExtract]_vars

-----------------------------------------------------------------------------
(* The derivation of eventType on its own: one plugin of every short       *)
(* display name, invoked by its command.                                   *)

NameAlphabet == {"H", "m", " ", "\t"}

Names == StringsUpTo(NameAlphabet, MaxName) \cup {HelpMenu.name, Ask.name}

NamedPlugin(name) == [name |-> name, command |-> HelpMenu.command]

NextEventType ==
    \/ \E i \in DOMAIN pc :
           /\ pc[i] = "idle"
           /\ \E name \in Names :
                 Start(i, HelpMenu.command, Configured(<<NamedPlugin(name)>>))
    \/ \E i \in DOMAIN pc, accepted \in BOOLEAN : DispatchReturn(i, accepted)

SpecEventType == InitIdle /\ [][NextEventType]_vars

-----------------------------------------------------------------------------
(* Two invocations against one remote: two comments handled concurrently,  *)
(* each resolving to a configured command.                                 *)

Racers == {"i1", "i2"}

\* the remote holds no run, or an older help-menu run still in progress
RaceHistories ==
    {<<>>, <<Run(1, HelpEvent, "in_progress", <<AnswerSteps>>, "none")>>}

InitRace ==
    /\ runs \in RaceHistories
    /\ pending = {}
    /\ nextRunId = Len(runs) + 1
    /\ script = <<>>
    /\ pc = [i \in Racers |-> "idle"]
    /\ inv = [i \in Racers |-> FreshLocals]
    /\ calls = [i \in Racers |-> <<>>]
    /\ observed = [i \in Racers |-> <<>>]

\* the runs created here have one job; each invocation is followed for
\* MaxRaceChecks status checks
NextRace ==
    \/ RemoteCreateRun /\ runs'[1].jobs = <<AnswerSteps>>
    \/ RemoteAdvance
    \/ \E i \in DOMAIN pc :
           /\ pc[i] = "idle"
           /\ \E k \in 1..Len(TwoPlugins) :
                 Start(i, TwoPlugins[k].command, Configured(TwoPlugins))
    \/ \E i \in DOMAIN pc : DispatchReturn(i, TRUE)
    \/ \E i \in DOMAIN pc : ListReturn(i)
    \/ \E i \in DOMAIN pc : PollReturn(i)
    \/ \E i \in DOMAIN pc :
           /\ Count(i, "getRunStatus") < MaxRaceChecks
           /\ TimerFires(i)
    \/ \E i \in DOMAIN pc : JobsReturn(i)
    \/ \E i \in DOMAIN pc : JobReturn(i)

SpecRace == InitRace /\ [][NextRace]_vars

-----------------------------------------------------------------------------
(* The plugin server of createPlugin: the route POST /. A request is a     *)
(* process: pc holds its place, inv its locals (the request, the options   *)
(* of the plugin, the response), calls the checks it has gone through, the *)
(* calls of handler and postComment and how handler ended, in order. The   *)
(* variables of the remote execution system stay as they are.              *)

Requests == {"r1"}

Fields ==
    {"stateId", "eventName", "eventPayload", "authToken", "settings", "ref",
     "signature"}

\* the kind inputSchema requires of each field
inputSchema ==
    [f \in Fields |-> IF f \in {"eventPayload", "settings"} THEN "object" ELSE "string"]

Field(kind, value) == [kind |-> kind, value |-> value]

\* [...Value.Errors(inputSchema, body)]: the fields missing or of another kind
SchemaErrors(body) ==
    {f \in Fields : f \notin DOMAIN body \/ body[f].kind # inputSchema[f]}

WorkerUrl == "https://worker.example"

\* a body that inputSchema accepts
ValidBody(stateId, settings, ref) ==
    [f \in Fields |->
        CASE f = "stateId" -> Field("string", stateId)
          [] f = "settings" -> Field("object", settings)
          [] f = "ref" -> Field("string", ref)
          [] f = "eventPayload" -> Field("object", "payload")
          [] OTHER -> Field("string", f)]

Without(body, f) == [g \in (DOMAIN body) \ {f} |-> body[g]]

\* request bodies: accepted ones with two state ids, with settings the
\* settings schema rejects, with a ref that is no URL; one without the
\* signature field; one whose stateId is a number
RequestBodies ==
    {ValidBody(id, "conforming", WorkerUrl) : id \in {"s1", "s2"}}
        \cup {ValidBody("s1", "other", WorkerUrl),
              ValidBody("s1", "conforming", "not a url"),
              Without(ValidBody("s1", "conforming", WorkerUrl), "signature"),
              [ValidBody("s1", "conforming", WorkerUrl) EXCEPT
                  !["stateId"] = Field("number", "7")]}

ContentTypes == {"application/json", "text/plain", "none"}

\* a POST: its content-type header, whether its body is JSON text, and the
\* value the body parses to
PostRequests ==
    {[contentType |-> ct, parses |-> TRUE, body |-> b] :
        ct \in ContentTypes, b \in RequestBodies}
        \cup {[contentType |-> ct, parses |-> FALSE, body |-> <<>>] :
                 ct \in ContentTypes}

\* pluginOptions: whether a settings schema and an env schema were given;
\* postCommentOnError is options?.postCommentOnError || true
PluginOptions ==
    {[settingsSchema |-> s, envSchema |-> e, postCommentOnError |-> TRUE] :
        s \in BOOLEAN, e \in BOOLEAN}

Environments == {"conforming", "other"}

\* what handler returns: a record of outputs, or undefined
Undefined == [defined |-> FALSE, value |-> EmptyMap]

Defined(value) == [defined |-> TRUE, value |-> value]

HandlerResults == {Undefined, Defined(EmptyMap), Defined(Map1("a", "1"))}

\* what handler throws: null, or an Error
HandlerErrors == {"null", "Error"}

NoResponse == [status |-> 0, stateId |-> "", output |-> Undefined]

\* ctx.json({ stateId, output }): status 200
JsonResponse(stateId, output) ==
    [status |-> 200, stateId |-> stateId, output |-> output]

\* the response to a thrown HTTPException(status), and, with status 500, to
\* any other error the route throws
ErrorResponse(status) == [status |-> status, stateId |-> "", output |-> Undefined]

NoPost == [contentType |-> "none", parses |-> FALSE, body |-> <<>>]

ServerLocals(options, environment) ==
    [request         |-> NoPost,
     pluginOptions   |-> options,
     honoEnvironment |-> environment,
     stateId         |-> "",
     response        |-> NoResponse]

\* the route ends with a response
Respond(r, response) ==
    /\ pc' = [pc EXCEPT ![r] = "done"]
    /\ inv' = [inv EXCEPT ![r].response = response]

Log(r, entries) == calls' = [calls EXCEPT ![r] = @ \o entries]

\* the POST arrives: the content-type check, then ctx.req.json() is awaited
PostReceived(r, request) ==
    /\ pc[r] = "idle"
    /\ IF request.contentType # "application/json"
       THEN /\ pc' = [pc EXCEPT ![r] = "done"]
            /\ inv' = [inv EXCEPT ![r].request = request,
                                  ![r].response = ErrorResponse(400)]
            /\ Log(r, <<Call("contentType", FALSE)>>)
       ELSE /\ pc' = [pc EXCEPT ![r] = "json"]
            /\ inv' = [inv EXCEPT ![r].request = request]
            /\ Log(r, <<Call("contentType", TRUE)>>)
    /\ UNCHANGED <<runs, pending, nextRunId, script, observed>>

\* the body has been read: a body that is not JSON makes ctx.req.json()
\* throw; then the schema validation, then verifySignature is awaited
BodyRead(r) ==
    /\ pc[r] = "json"
    /\ LET request == inv[r].request
       IN  IF ~request.parses
           THEN /\ Respond(r, ErrorResponse(500))
                /\ UNCHANGED calls
           ELSE IF SchemaErrors(request.body) # {}
           THEN /\ Respond(r, ErrorResponse(400))
                /\ Log(r, <<Call("schema", FALSE)>>)
           ELSE /\ pc' = [pc EXCEPT ![r] = "verifySignature"]
                /\ inv' = [inv EXCEPT ![r].stateId = request.body["stateId"].value]
                /\ Log(r, <<Call("schema", TRUE)>>)
    /\ UNCHANGED <<runs, pending, nextRunId, script, observed>>

\* Value.Decode(schema, Value.Default(schema, value)) throws
DecodeThrows(schemaGiven, value) == schemaGiven /\ value # "conforming"

\* new URL(inputs.ref) throws
UrlThrows(ref) == ref # WorkerUrl

\* the settings, the environment or the ref make the route throw before the
\* handler is called
ContextThrows(r) ==
    \/ DecodeThrows(inv[r].pluginOptions.settingsSchema,
                    inv[r].request.body["settings"].value)
    \/ DecodeThrows(inv[r].pluginOptions.envSchema, inv[r].honoEnvironment)
    \/ UrlThrows(inv[r].request.body["ref"].value)

\* faulty variant: the result of verifySignature is not tested
SignatureVerifiedUntested(r, valid) ==
    /\ pc[r] = "verifySignature"
    /\ IF ContextThrows(r)
       THEN /\ Respond(r, ErrorResponse(500))
            /\ Log(r, <<Call("verifySignature", valid)>>)
       ELSE /\ pc' = [pc EXCEPT ![r] = "handler"]
            /\ Log(r, <<Call("verifySignature", valid), Call("handler", inv[r].stateId)>>)
            /\ UNCHANGED inv
    /\ UNCHANGED <<runs, pending, nextRunId, script, observed>>

\* verifySignature has answered: the signature test, the decoding of the
\* settings and of the environment, the worker name, and the call of handler
SignatureVerified(r, valid) ==
    /\ pc[r] = "verifySignature"
    /\ IF ~valid
       THEN /\ Respond(r, ErrorResponse(400))
            /\ Log(r, <<Call("verifySignature", FALSE)>>)
       ELSE IF ContextThrows(r)
       THEN /\ Respond(r, ErrorResponse(500))
            /\ Log(r, <<Call("verifySignature", TRUE)>>)
       ELSE /\ pc' = [pc EXCEPT ![r] = "handler"]
            /\ Log(r, <<Call("verifySignature", TRUE), Call("handler", inv[r].stateId)>>)
            /\ UNCHANGED inv
    /\ UNCHANGED <<runs, pending, nextRunId, script, observed>>

\* handler returns: ctx.json({ stateId: inputs.stateId, output: result })
HandlerReturns(r, result) ==
    /\ pc[r] = "handler"
    /\ Respond(r, JsonResponse(inv[r].stateId, result))
    /\ Log(r, <<Call("returned", result)>>)
    /\ UNCHANGED <<runs, pending, nextRunId, script, observed>>

\* handler throws: postComment is awaited if the error is not null, then
\* HTTPException(500) is thrown
HandlerThrows(r, error) ==
    /\ pc[r] = "handler"
    /\ IF inv[r].pluginOptions.postCommentOnError /\ error # "null"
       THEN /\ pc' = [pc EXCEPT ![r] = "postComment"]
            /\ Log(r, <<Call("threw", error), Call("postComment", error)>>)
            /\ UNCHANGED inv
       ELSE /\ Respond(r, ErrorResponse(500))
            /\ Log(r, <<Call("threw", error)>>)
    /\ UNCHANGED <<runs, pending, nextRunId, script, observed>>

\* postComment has returned, or has thrown in its turn: a 500 either way
PostCommentSettles(r) ==
    /\ pc[r] = "postComment"
    /\ Respond(r, ErrorResponse(500))
    /\ UNCHANGED <<runs, pending, nextRunId, script, calls, observed>>

InitPlugin ==
    /\ runs = <<>>
    /\ pending = {}
    /\ nextRunId = 1
    /\ script = <<>>
    /\ pc = [r \in Requests |-> "idle"]
    /\ \E options \in PluginOptions, environment \in Environments :
          inv = [r \in Requests |-> ServerLocals(options, environment)]
    /\ calls = [r \in Requests |-> <<>>]
    /\ observed = [r \in Requests |-> <<>>]

NextPlugin ==
    \/ \E r \in DOMAIN pc :
           /\ pc[r] = "idle"
           /\ \E request \in PostRequests : PostReceived(r, request)
    \/ \E r \in DOMAIN pc : BodyRead(r)
    \/ \E r \in DOMAIN pc, valid \in BOOLEAN : SignatureVerified(r, valid)
    \/ \E r \in DOMAIN pc, result \in HandlerResults : HandlerReturns(r, result)
    \/ \E r \in DOMAIN pc, error \in HandlerErrors : HandlerThrows(r, error)
    \/ \E r \in DOMAIN pc : PostCommentSettles(r)

SpecPlugin == InitPlugin /\ [][NextPlugin]_vars

-----------------------------------------------------------------------------
(* The worker's handler of issue_comment.created:                          *)
(* handleIssueCommentCreated.  A comment of the issue is a process: pc      *)
(* holds the place of the invocation its event started ("absent" while the  *)
(* comment does not exist), inv the event, calls what the invocation called *)
(* and logged.  A comment the worker posts is a comment of the issue like   *)
(* any other, and its event is delivered to the worker like any other.      *)

\* comments posted on the issue by authors other than the worker
MaxComments == 2

\* the slots of the issue's comments, in the order of their creation
Thread == 1..(2 * MaxComments)

\* payload.comment.user.type
UserTypes == {"User", "Organization", "Bot"}

\* the user type of the worker's own comments: the worker acts as the
\* installation of an app
WorkerType == "Bot"

WorkerBody == "Hello from the worker!"

\* the event of a comment; inReplyTo is the comment whose invocation posted
\* it (0 for a comment of another author) and is not visible to the handler
CommentEvent(type, inReplyTo) ==
    [payload   |-> [comment |-> [user |-> [type |-> type]]],
     inReplyTo |-> inReplyTo,
     outcome   |-> ""]

NoComment == CommentEvent("", 0)

Absent == {c \in Thread : pc[c] = "absent"}

NextComment == CHOOSE c \in Absent : \A d \in Absent : c <= d

AuthorComments ==
    {c \in Thread : pc[c] # "absent" /\ inv[c].inReplyTo = 0}

\* an author other than the worker posts a comment: its event is delivered
CommentPosted(type) ==
    /\ Cardinality(AuthorComments) < MaxComments
    /\ Absent # {}
    /\ pc' = [pc EXCEPT ![NextComment] = "delivered"]
    /\ inv' = [inv EXCEPT ![NextComment] = CommentEvent(type, 0)]
    /\ UNCHANGED <<runs, pending, nextRunId, script, calls, observed>>

\* faulty variant: the author's type is not tested
handleIssueCommentCreatedAnyAuthor(c) ==
    /\ pc[c] = "delivered"
    /\ pc' = [pc EXCEPT ![c] = "createComment"]
    /\ Issue(c, "createComment", WorkerBody)
    /\ UNCHANGED <<runs, pending, nextRunId, script, inv, observed>>

\* the handler up to its await: the test of the author's type, then the
\* call of createComment
handleIssueCommentCreated(c) ==
    /\ pc[c] = "delivered"
    /\ IF inv[c].payload.comment.user.type = "Bot"
       THEN /\ pc' = [pc EXCEPT ![c] = "done"]
            /\ inv' = [inv EXCEPT ![c].outcome = "skipped"]
            /\ Issue(c, "console.log", "Skipping bot comment")
       ELSE /\ pc' = [pc EXCEPT ![c] = "createComment"]
            /\ Issue(c, "createComment", WorkerBody)
            /\ UNCHANGED inv
    /\ UNCHANGED <<runs, pending, nextRunId, script, observed>>

\* createComment resolves: the comment is on the issue, its event is
\* delivered, the handler returns
CreateCommentResolves(c) ==
    /\ pc[c] = "createComment"
    /\ Absent # {}
    /\ pc' = [pc EXCEPT ![c] = "done", ![NextComment] = "delivered"]
    /\ inv' = [inv EXCEPT ![c].outcome = "resolved",
                          ![NextComment] = CommentEvent(WorkerType, c)]
    /\ UNCHANGED <<runs, pending, nextRunId, script, calls, observed>>

\* createComment rejects: no comment, the handler throws
CreateCommentRejects(c) ==
    /\ pc[c] = "createComment"
    /\ pc' = [pc EXCEPT ![c] = "done"]
    /\ inv' = [inv EXCEPT ![c].outcome = "rejected"]
    /\ UNCHANGED <<runs, pending, nextRunId, script, calls, observed>>

InitWorker ==
    /\ runs = <<>>
    /\ pending = {}
    /\ nextRunId = 1
    /\ script = <<>>
    /\ pc = [c \in Thread |-> "absent"]
    /\ inv = [c \in Thread |-> NoComment]
    /\ calls = [c \in Thread |-> <<>>]
    /\ observed = [c \in Thread |-> <<>>]

NextWorker ==
    \/ \E type \in UserTypes : CommentPosted(type)
    \/ \E c \in DOMAIN pc : handleIssueCommentCreated(c)
    \/ \E c \in DOMAIN pc : CreateCommentResolves(c)
    \/ \E c \in DOMAIN pc : CreateCommentRejects(c)

SpecWorker == InitWorker /\ [][NextWorker]_vars

-----------------------------------------------------------------------------
(* Properties. *)

Last(s) == s[Len(s)]

Max(S) == CHOOSE x \in S : \A y \in S : x >= y

Min(S) == CHOOSE x \in S : \A y \in S : x <= y

\* C1: in every invocation, if the run listing returns an empty sequence of
\* in-progress runs, the invocation ends with the "No runs found" outcome and
\* has issued no status check and no job or step fetch.
C1_EmptyLocateEndsWithoutPolling ==
    \A i \in DOMAIN pc :
        (inv[i].located.returned /\ inv[i].located.runs = <<>>) =>
            /\ pc[i] = "done"
            /\ inv[i].outcome = "NoRunsFound"
            /\ inv[i].ret = NoValue("No runs found")
            /\ Count(i, "getRunStatus") = 0
            /\ Count(i, "listJobs") = 0
            /\ Count(i, "getJob") = 0

\* an invocation whose listing found no in-progress run although the remote
\* holds runs, and which has ended
C1_Witness ==
    \E i \in DOMAIN pc :
        /\ inv[i].located.returned
        /\ inv[i].located.runs = <<>>
        /\ Len(runs) > 0
        /\ pc[i] = "done"
        /\ Count(i, "listRuns") = 1

\* the statuses the status endpoint has given and will give, in order
StatusSequence(i) == observed[i] \o script

FirstCompleted(statuses) ==
    Min({k \in 1..Len(statuses) : statuses[k] = "completed"})

LeftTheLoop(i) == pc[i] \in {"listJobs", "getJob", "done"}

\* C2: for every scripted status sequence whose first "completed" is at
\* position k, the poller has made exactly k status checks when it leaves the
\* loop; it never leaves the loop after a status other than "completed"; for
\* queued, in_progress, in_progress, completed it makes exactly 4 checks.
C2_PollerChecksUntilCompleted ==
    \A i \in DOMAIN pc :
        /\ LeftTheLoop(i) =>
              /\ observed[i] # <<>>
              /\ Last(observed[i]) = "completed"
              /\ Count(i, "getRunStatus") = FirstCompleted(StatusSequence(i))
              /\ Len(observed[i]) = FirstCompleted(StatusSequence(i))
              /\ inv[i].isCompleted
        /\ ~LeftTheLoop(i) =>
              /\ "completed" \notin Range(observed[i])
              /\ ~inv[i].isCompleted
        /\ (LeftTheLoop(i) /\ StatusSequence(i) =
                <<"queued", "in_progress", "in_progress", "completed">>) =>
              Count(i, "getRunStatus") = 4

\* the poller has left the loop on the script queued, in_progress,
\* in_progress, completed
C2_Witness ==
    \E i \in DOMAIN pc :
        /\ LeftTheLoop(i)
        /\ observed[i] = <<"queued", "in_progress", "in_progress", "completed">>
        /\ Count(i, "getRunStatus") = 4

\* the steps of a list that are successful and declare the key
SuccessfulWith(steps, key) ==
    {k \in 1..Len(steps) :
        /\ steps[k].conclusion = "success"
        /\ steps[k].hasOutputs
        /\ key \in DOMAIN steps[k].outputs}

\* the mapping the extractor is to return for a list of steps: every key a
\* successful step declares, with the value of the last such step
ExpectedOutputs(steps) ==
    LET keys == UNION {DOMAIN steps[k].outputs : k \in 1..Len(steps)}
        live == {key \in keys : SuccessfulWith(steps, key) # {}}
    IN  [key \in live |-> steps[Max(SuccessfulWith(steps, key))].outputs[key]]

\* the steps of the first job of the run an invocation polls
FirstJobSteps(i) == RunById(inv[i].runID).jobs[1]

\* C3: the extractor returns the merge, in step order, of the outputs of
\* exactly the steps with conclusion "success": the later successful step
\* wins a key, other steps and steps without outputs contribute nothing and
\* raise no error; the three-step example gives {a: 3, b: 4}.
C3_ExtractorMergesSuccessfulSteps ==
    \A i \in DOMAIN pc :
        pc[i] = "done" =>
            /\ inv[i].outcome = "Completed"
            /\ inv[i].output.logged
            /\ inv[i].output.value = ExpectedOutputs(FirstJobSteps(i))
            /\ FirstJobSteps(i) = ExampleSteps =>
                  inv[i].output.value = Map2("a", "3", "b", "4")

\* the extractor has returned {a: 3, b: 4} for the three-step example
C3_Witness ==
    \E i \in DOMAIN pc :
        /\ pc[i] = "done"
        /\ FirstJobSteps(i) = ExampleSteps
        /\ inv[i].output = Logged(Map2("a", "3", "b", "4"))

C4_CompletedState(i) ==
    inv[i].outcome = "Completed" =>
        /\ pc[i] = "done"
        /\ inv[i].config.present
        /\ inv[i].handler = Resolve(inv[i].body, inv[i].config.plugins)
        /\ inv[i].handler > 0
        /\ inv[i].eventType = EventTypeOf(inv[i].config.plugins[inv[i].handler].name)
        /\ inv[i].located.returned
        /\ inv[i].located.runs # <<>>
        /\ inv[i].located.runs[1].name = inv[i].eventType
        /\ inv[i].located.runs[1].status = "in_progress"
        /\ inv[i].runID = inv[i].located.runs[1].id
        /\ Last(observed[i]) = "completed"
        /\ inv[i].output = Logged(ExpectedOutputs(FirstJobSteps(i)))
        /\ inv[i].ret = NoValue("undefined")
        /\ FirstJobSteps(i) = AnswerSteps =>
              inv[i].output.value = Map1("answer", "42")

\* an invocation that has located a run ends in no other way than: completed,
\* a rejected fetch, or the read of job 0 of a run without jobs
C4_EndsAfterLocate(i) ==
    (pc[i] = "done" /\ inv[i].located.runs # <<>>) =>
        /\ inv[i].outcome \in {"Completed", "FetchRejected", "TypeError"}
        /\ inv[i].outcome = "TypeError" => RunById(inv[i].runID).jobs = <<>>

MatchingCommands(body, plugins) ==
    {k \in 1..Len(plugins) : AlternativeMatches(plugins[k].command, body)}

Resolved(i) == pc[i] # "idle" /\ inv[i].config.present

\* C6, for lists of non-empty command strings: the resolver returns the first
\* command, in configuration order, whose match pattern matches a prefix of
\* the text; of several that match, the one configured earliest.
C6_FirstMatchingCommandReturned ==
    \A i \in DOMAIN pc :
        LET body    == inv[i].body
            plugins == inv[i].config.plugins
        IN  (/\ Resolved(i)
             /\ \A k \in 1..Len(plugins) : plugins[k].command # <<>>
             /\ MatchingCommands(body, plugins) # {}) =>
                /\ inv[i].handler = Min(MatchingCommands(body, plugins))
                /\ pc[i] = "dispatch"

\* the command is a proper prefix of a longer word at the start of the text
ProperPrefixOfWord(pat, body) ==
    /\ PatternMatchesPrefix(pat, body)
    /\ Len(pat) >= 1
    /\ Len(pat) < Len(body)
    /\ IsWordChar(body[Len(pat)])
    /\ IsWordChar(body[Len(pat) + 1])

\* C7: the resolver returns null when the command list is empty, and when
\* every command either does not match at the start of the text or is only a
\* proper prefix of a longer word there ("/help" against "/helpme").
C7_NullWhenNothingMatches ==
    \A i \in DOMAIN pc :
        LET body    == inv[i].body
            plugins == inv[i].config.plugins
        IN  (/\ Resolved(i)
             /\ \A k \in 1..Len(plugins) :
                   \/ ~PatternMatchesPrefix(plugins[k].command, body)
                   \/ ProperPrefixOfWord(plugins[k].command, body)) =>
                /\ commentParser(body, plugins) = Null
                /\ inv[i].outcome = "NoCommand"
                /\ inv[i].handler = 0

\* "/help" is configured, the text is "/helpme", and nothing was resolved
C7_Witness ==
    \E i \in DOMAIN pc :
        /\ Resolved(i)
        /\ inv[i].config.plugins = <<CommandPlugin(HelpMenu.command)>>
        /\ inv[i].body = <<"/", "h", "e", "l", "p", "m", "e">>
        /\ inv[i].outcome = "NoCommand"

RemoteCalls == {"dispatch", "listRuns", "getRunStatus", "listJobs", "getJob"}

\* C8: if the command set is absent or the resolver yields no match, the
\* invocation ends early with a non-error outcome and issues no dispatch, no
\* run listing, no status check and no job or step fetch.
C8_NoMatchEndsEarlyWithoutCalls ==
    \A i \in DOMAIN pc :
        (/\ pc[i] # "idle"
         /\ \/ ~inv[i].config.present
            \/ Resolve(inv[i].body, inv[i].config.plugins) = 0) =>
            /\ pc[i] = "done"
            /\ inv[i].outcome \in {"NoPlugins", "NoCommand", "NoHandler"}
            /\ inv[i].ret = NoValue("not called")
            /\ \A op \in RemoteCalls : Count(i, op) = 0
            /\ calls[i] = <<>>

\* an invocation has ended early on a text that matches no configured command
C8_Witness ==
    \E i \in DOMAIN pc :
        /\ pc[i] = "done"
        /\ inv[i].config = Configured(<<HelpMenu>>)
        /\ inv[i].body = <<"h", "e", "l", "l", "o">>
        /\ inv[i].outcome = "NoCommand"
        /\ calls[i] = <<>>

\* C9: within one invocation the dispatch, the run listing, the job listing
\* and the job fetch are each issued at most once; only the status check is
\* repeated; an invocation that has ended, on a rejected fetch or otherwise,
\* issues no further call.
C9_NoCallRepeatedButStatusCheck ==
    /\ [](\A i \in Invocations :
            /\ \A op \in RemoteCalls \ {"getRunStatus"} : Count(i, op) <= 1
            /\ \A k \in 1..Len(calls[i]) : calls[i][k].op \in RemoteCalls)
    /\ [][\A i \in Invocations :
            /\ pc[i] = "done" => (pc'[i] = "done" /\ calls'[i] = calls[i])
            /\ \A k \in 1..Len(calls[i]) :
                  Len(calls'[i]) >= k /\ calls'[i][k] = calls[i][k]]_vars

\* an invocation has repeated the status check and ended on a rejected fetch
C9_Witness ==
    \E i \in DOMAIN pc :
        /\ pc[i] = "done"
        /\ inv[i].outcome = "FetchRejected"
        /\ Count(i, "getRunStatus") >= 3
        /\ Count(i, "listJobs") = 1

\* C10, the case of zero jobs: when the completed run exposes zero jobs, the
\* extractor reports an outcome to the orchestrator; the invocation does not
\* end with the exception of an out-of-range read of job 0 that nothing has
\* caught.
C10_ZeroJobsReportedNotThrown ==
    \A i \in DOMAIN pc :
        (/\ pc[i] = "done"
         /\ inv[i].isCompleted
         /\ RunById(inv[i].runID).jobs = <<>>) =>
            inv[i].outcome # "TypeError"

\* the places of an invocation in Locate, Poll and Extract
ReadingStages == {"listRuns", "getRunStatus", "sleep", "listJobs", "getJob"}

\* invocation i takes a step
StepOf(i) == pc'[i] # pc[i] \/ inv'[i] # inv[i] \/ calls'[i] # calls[i]

\* the runs an invocation's dispatch has caused
CausedBy(i) == {k \in 1..Len(runs) : runs[k].cause = i}

\* C11: across every interleaving of two invocations and the remote, a step
\* of Locate, Poll or Extract leaves the remote store (the runs, their
\* status, jobs and steps, and the accepted events) unchanged; the runs are
\* changed only in steps in which no invocation moves; a run is added only
\* for an event that a dispatch has left with the remote, and an event is
\* left only by the return of a dispatch.
C11_ReadStagesLeaveStoreUnchanged ==
    /\ [][\A i \in Racers :
            (pc[i] \in ReadingStages /\ StepOf(i)) =>
                (runs' = runs /\ pending' = pending /\ nextRunId' = nextRunId)]_vars
    /\ [][runs' # runs => \A i \in Racers : ~StepOf(i)]_vars
    /\ [][Len(runs') # Len(runs) =>
            \E e \in pending :
                /\ pending' = pending \ {e}
                /\ Tail(runs') = runs
                /\ Head(runs').cause = e.cause
                /\ Head(runs').name = e.name]_vars
    /\ [][pending' \ pending # {} =>
            \E i \in Racers :
                /\ pc[i] = "dispatch"
                /\ pc'[i] = "listRuns"
                /\ pending' = pending \cup {[name |-> inv[i].eventType, cause |-> i]}]_vars
    /\ [](\A i \in Racers :
            /\ Cardinality(CausedBy(i)) <= Count(i, "dispatch")
            /\ Count(i, "dispatch") <= 1)

\* both invocations have gone through Locate, Poll and Extract, each on a run
\* the remote created and completed in between
C11_Witness ==
    /\ \A i \in Racers :
          /\ inv[i].outcome = "Completed"
          /\ Cardinality(CausedBy(i)) = 1
          /\ Count(i, "getRunStatus") >= 1
    /\ inv["i1"].runID # inv["i2"].runID
    /\ \A k \in 1..Len(runs) : runs[k].status = "completed"

\* the display name of the plugin an invocation has resolved
DisplayName(i) == inv[i].config.plugins[inv[i].handler].name

\* upper-case letters and their lower-case forms
LowerOf == [c \in {"A", "H", "M"} |-> IF c = "A" THEN "a" ELSE IF c = "H" THEN "h" ELSE "m"]

\* the eventType of an invocation is used for its dispatch and its listing
SameEventTypeSent(i) ==
    /\ Count(i, "dispatch") = 1
    /\ calls[i][1] = Call("dispatch", inv[i].eventType)
    /\ Len(calls[i]) >= 2 => calls[i][2] = Call("listRuns", inv[i].eventType)

\* the claim of C12 as stated: the eventType is the name lowercased with
\* every space, and nothing but the spaces, replaced by a hyphen
C12_OnlySpacesBecomeHyphens ==
    \A i \in DOMAIN pc :
        inv[i].handler > 0 =>
            LET name == DisplayName(i)
                et   == inv[i].eventType
            IN  /\ Len(et) = Len(name)
                /\ \A k \in 1..Len(name) :
                      et[k] = IF name[k] = " " THEN "-"
                              ELSE IF name[k] \in DOMAIN LowerOf THEN LowerOf[name[k]]
                              ELSE name[k]
                /\ SameEventTypeSent(i)

\* C12 (amended): for every display name, the eventType is the name
\* lowercased with every whitespace character (the class \s: the space, and
\* also the tab) replaced by a hyphen, so that "Help Menu" gives "help-menu";
\* the one derived value is sent in the dispatch and used in the run listing
\* that follows it.
C12_WhitespaceBecomesHyphens ==
    \A i \in DOMAIN pc :
        inv[i].handler > 0 =>
            LET name == DisplayName(i)
                et   == inv[i].eventType
            IN  /\ Len(et) = Len(name)
                /\ \A k \in 1..Len(name) :
                      et[k] = IF name[k] \in {" ", "\t"} THEN "-"
                              ELSE IF name[k] \in DOMAIN LowerOf THEN LowerOf[name[k]]
                              ELSE name[k]
                /\ name = <<"H", "e", "l", "p", " ", "M", "e", "n", "u">> =>
                      et = <<"h", "e", "l", "p", "-", "m", "e", "n", "u">>
                /\ SameEventTypeSent(i)

\* "Help Menu" has given "help-menu", sent in the dispatch and in the listing
C12_Witness ==
    \E i \in DOMAIN pc :
        /\ inv[i].handler > 0
        /\ DisplayName(i) = HelpMenu.name
        /\ calls[i] = <<Call("dispatch", <<"h", "e", "l", "p", "-", "m", "e", "n", "u">>),
                        Call("listRuns", <<"h", "e", "l", "p", "-", "m", "e", "n", "u">>)>>

\* the stage a place of an invocation belongs to: Resolve 0, Dispatch 1,
\* Locate 2, Poll 3, Extract 4 and 5, ended 6
StageOf(place) ==
    CASE place = "idle" -> 0
      [] place = "dispatch" -> 1
      [] place = "listRuns" -> 2
      [] place \in {"getRunStatus", "sleep"} -> 3
      [] place = "listJobs" -> 4
      [] place = "getJob" -> 5
      [] place = "done" -> 6

\* C14: in every invocation the calls are issued in the order dispatch, run
\* listing, status checks, job listing, job fetch; the run listing is issued
\* in the step in which the dispatch returns and not before, no status check
\* is issued before the listing has returned a non-empty sequence, no job
\* listing or job fetch before a status check has observed "completed";
\* nothing is issued before the resolver has matched; and no step takes an
\* invocation to an earlier stage.
C14_StagesInOrder ==
    /\ [](\A i \in Invocations :
            /\ \A j, k \in 1..Len(calls[i]) :
                  j < k => StageOf(calls[i][j].op) <= StageOf(calls[i][k].op)
            /\ calls[i] # <<>> =>
                  /\ inv[i].handler > 0
                  /\ calls[i][1].op = "dispatch"
            /\ Count(i, "listRuns") > 0 => pc[i] \notin {"idle", "dispatch"}
            /\ Count(i, "getRunStatus") > 0 =>
                  /\ Count(i, "listRuns") = 1
                  /\ inv[i].located.returned
                  /\ inv[i].located.runs # <<>>
            /\ Count(i, "listJobs") > 0 =>
                  /\ Count(i, "getRunStatus") > 0
                  /\ observed[i] # <<>>
                  /\ Last(observed[i]) = "completed"
            /\ Count(i, "getJob") > 0 => Count(i, "listJobs") = 1)
    /\ [][\A i \in Invocations :
            /\ StageOf(pc'[i]) >= StageOf(pc[i])
            /\ Count(i, "listRuns")' > Count(i, "listRuns") => pc[i] = "dispatch"
            /\ Count(i, "getRunStatus")' > Count(i, "getRunStatus") =>
                  \/ pc[i] = "listRuns" /\ inv'[i].located.runs # <<>>
                  \/ pc[i] = "sleep"
            /\ Count(i, "listJobs")' > Count(i, "listJobs") =>
                  pc[i] = "getRunStatus" /\ Last(observed'[i]) = "completed"]_vars

\* an invocation has gone through the five stages: dispatch, listing, three
\* status checks, job listing, job fetch
C14_Witness ==
    \E i \in DOMAIN pc :
        /\ inv[i].outcome = "Completed"
        /\ [k \in 1..Len(calls[i]) |-> calls[i][k].op] =
              <<"dispatch", "listRuns", "getRunStatus", "getRunStatus",
                "getRunStatus", "listJobs", "getJob">>

Polling(i) == pc[i] \in {"getRunStatus", "sleep"}

\* a status check is sent after a sleep
StatusCheckIssued(i) == pc[i] = "sleep" /\ pc'[i] = "getRunStatus"

\* C15: the poller has no iteration limit and no deadline. It leaves the loop
\* only on a status of "completed" and ends in no other way than through the
\* extractor or on a rejected fetch; once the polled run is completed, the
\* poll and the invocation terminate; and an invocation that stays in the
\* poller for ever, as it does when the run never reaches "completed" and no
\* fetch is rejected, issues status checks again and again without end.
C15_PollerRetriesWithoutLimit ==
    /\ [](\A i \in Invocations :
            /\ pc[i] \in {"listJobs", "getJob"} =>
                  Last(observed[i]) = "completed"
            /\ (pc[i] = "done" /\ Count(i, "getRunStatus") > 0) =>
                  \/ inv[i].outcome = "FetchRejected"
                  \/ /\ inv[i].outcome \in {"Completed", "TypeError"}
                     /\ Last(observed[i]) = "completed")
    /\ \A i \in Invocations :
          (Polling(i) /\ RunById(inv[i].runID).status = "completed")
              ~> (pc[i] = "done")
    /\ \A i \in Invocations :
          <>[]Polling(i) => []<><<StatusCheckIssued(i)>>_vars

\* a status check beyond the first MaxChecks is under way, all checks so far
\* having found the run in progress
C15_Witness ==
    \E i \in DOMAIN pc :
        /\ pc[i] = "getRunStatus"
        /\ Count(i, "getRunStatus") = MaxChecks
        /\ Len(observed[i]) = MaxChecks
        /\ \A k \in 1..Len(observed[i]) : observed[i][k] = "in_progress"
        /\ RunById(inv[i].runID).status = "in_progress"

\* the listing of invocation i has returned runs, and the run it selected
Selected(i) == inv[i].located.returned /\ inv[i].located.runs # <<>>

SelectedRun(i) == inv[i].located.runs[1]

\* the polled run is the run created by this invocation's dispatch
OwnRunPolled(i) == SelectedRun(i).cause = i

\* C16: "the polled run is the run created by this invocation's dispatch" is
\* not an invariant (the witness is a state that violates it). What holds of
\* an invocation that polls a run its own dispatch has not caused: the run
\* bears the invocation's eventType and was in progress when listed, and it
\* is either an older run that no invocation here has caused, or the run of
\* another invocation that has dispatched the same eventType; it is the run
\* every status check of the invocation is sent for.
C16_ForeignRunPolledOnlyBySameName ==
    \A i \in Racers :
        (Selected(i) /\ ~OwnRunPolled(i)) =>
            /\ SelectedRun(i).name = inv[i].eventType
            /\ SelectedRun(i).status = "in_progress"
            /\ inv[i].runID = SelectedRun(i).id
            /\ \A k \in 1..Len(calls[i]) :
                  calls[i][k].op = "getRunStatus" => calls[i][k].arg = SelectedRun(i).id
            /\ \/ SelectedRun(i).cause = "none"
               \/ \E j \in Racers \ {i} :
                     /\ SelectedRun(i).cause = j
                     /\ inv[j].eventType = inv[i].eventType
                     /\ Count(j, "dispatch") = 1
                     /\ pc[j] \notin {"idle", "dispatch"}

\* two invocations have dispatched the same eventType and the remote has
\* created a run for each; one of them has selected the run of the other and
\* has sent a status check for it
C16_Witness ==
    \E i, j \in Racers :
        /\ i # j
        /\ inv[i].eventType = inv[j].eventType
        /\ CausedBy(i) # {}
        /\ CausedBy(j) # {}
        /\ Selected(i)
        /\ SelectedRun(i).cause = j
        /\ Count(i, "getRunStatus") >= 1
        /\ Last(calls[i]) = Call("getRunStatus", SelectedRun(i).id)

\* the positions, in the listing an invocation received, of the runs that
\* bear its eventType
NamedRuns(i) ==
    {k \in 1..Len(inv[i].workflow_runs) :
        inv[i].workflow_runs[k].name = inv[i].eventType}

\* of those, the runs in flight: queued or in progress
InFlight(i) ==
    {k \in NamedRuns(i) : inv[i].workflow_runs[k].status # "completed"}

\* of those, the five most recent
RecentNamed(i) ==
    {k \in NamedRuns(i) : Cardinality({j \in NamedRuns(i) : j < k}) < 5}

RecentInProgress(i) ==
    {k \in RecentNamed(i) : inv[i].workflow_runs[k].status = "in_progress"}

Visible(i) ==
    [ret    |-> inv[i].ret,
     output |-> inv[i].output,
     sent   |-> [k \in 1..Len(calls[i]) |-> calls[i][k].op]]

NoRunsFoundSeen ==
    [ret    |-> NoValue("No runs found"),
     output |-> NoOutput,
     sent   |-> <<"dispatch", "listRuns">>]

\* the run the invocation's dispatch caused was in the listing, completed
OwnRunListedCompleted(i) ==
    \E k \in 1..Len(inv[i].workflow_runs) :
        /\ inv[i].workflow_runs[k].cause = i
        /\ inv[i].workflow_runs[k].status = "completed"

\* the invocation's dispatch has caused no run
NoRunCreated(i) ==
    /\ CausedBy(i) = {}
    /\ \A e \in pending : e.cause # i

\* C18: when the run caused by the invocation's dispatch was already
\* completed in the listing, and when the dispatch has caused no run at all,
\* and none of the five most recent runs of the eventType was in progress,
\* the invocation ends with "No runs found"; what the caller sees is the same
\* in the two cases: the returned string, no output, a dispatch and one
\* listing and no status check or job fetch.
C18_CompletedBeforeLocateLooksLikeNoRun ==
    \A i \in DOMAIN pc :
        (/\ inv[i].located.returned
         /\ RecentInProgress(i) = {}
         /\ OwnRunListedCompleted(i) \/ NoRunCreated(i)) =>
            /\ pc[i] = "done"
            /\ inv[i].outcome = "NoRunsFound"
            /\ Visible(i) = NoRunsFoundSeen

\* the remote created the invocation's run and completed it before the
\* listing; the invocation has ended with "No runs found"
C18_Witness ==
    \E i \in DOMAIN pc :
        /\ inv[i].located.returned
        /\ OwnRunListedCompleted(i)
        /\ inv[i].workflow_runs[1].cause = i
        /\ inv[i].workflow_runs[1].jobs = <<AnswerSteps>>
        /\ inv[i].outcome = "NoRunsFound"
        /\ ~inv[i].output.logged

\* C19: whenever the listing returns a non-empty sequence, the run polled is
\* the one at index 0: the most recent in_progress run among the five most
\* recent runs named eventType in the listing; every status check and the
\* job listing are sent for the id of that run, the job fetched is the first
\* job of that run, and the output logged is extracted from it.
C19_PolledRunIsIndexZero ==
    \A i \in DOMAIN pc :
        Selected(i) =>
            /\ RecentInProgress(i) # {}
            /\ SelectedRun(i) = inv[i].workflow_runs[Min(RecentInProgress(i))]
            /\ \A k \in 2..Len(inv[i].located.runs) :
                  inv[i].located.runs[k].id < SelectedRun(i).id
            /\ inv[i].runID = SelectedRun(i).id
            /\ Count(i, "getRunStatus") >= 1
            /\ \A k \in 1..Len(calls[i]) :
                  /\ calls[i][k].op \in {"getRunStatus", "listJobs"} =>
                        calls[i][k].arg = SelectedRun(i).id
                  /\ calls[i][k].op = "getJob" =>
                        calls[i][k].arg = JobIdOf(SelectedRun(i).id, 1)
            /\ inv[i].output.logged =>
                  inv[i].output.value = ExpectedOutputs(RunById(SelectedRun(i).id).jobs[1])

\* a listing has returned several runs; the invocation has polled the most
\* recent of them twice and extracted its output
C19_Witness ==
    \E i \in DOMAIN pc :
        /\ Selected(i)
        /\ Len(inv[i].located.runs) >= 2
        /\ Count(i, "getRunStatus") = 2
        /\ Count(i, "listJobs") = 1
        /\ inv[i].outcome = "Completed"

\* the jobs of the run an invocation has polled
JobsOfPolledRun(i) == RunById(inv[i].runID).jobs

\* C20: for a run with one or several jobs, the extractor fetches the job at
\* index 0 and no other; the mapping it returns is the mapping of the first
\* job's steps, whatever the other jobs are: a key declared only by steps of
\* other jobs does not appear in it, and a key declared by both has the value
\* of the first job; the invocation ends without an error.
C20_OnlyFirstJobExtracted ==
    \A i \in DOMAIN pc :
        pc[i] = "done" =>
            LET jobs == JobsOfPolledRun(i)
                out  == inv[i].output.value
            IN  /\ inv[i].outcome = "Completed"
                /\ inv[i].ret = NoValue("undefined")
                /\ inv[i].output.logged
                /\ Count(i, "getJob") = 1
                /\ Last(calls[i]) = Call("getJob", JobIdOf(inv[i].runID, 1))
                /\ out = ExpectedOutputs(jobs[1])
                /\ \A j \in 2..Len(jobs) :
                      \A k \in 1..Len(jobs[j]) :
                          \A key \in DOMAIN jobs[j][k].outputs :
                              \/ key \notin DOMAIN out
                              \/ /\ SuccessfulWith(jobs[1], key) # {}
                                 /\ out[key] =
                                       jobs[1][Max(SuccessfulWith(jobs[1], key))].outputs[key]

\* a run of three jobs: the first gives {a: 1}, the second would give
\* {a: 3, b: 4}, the third {answer: 42}; the mapping returned is {a: 1}
C20_Witness ==
    \E i \in DOMAIN pc :
        /\ pc[i] = "done"
        /\ JobsOfPolledRun(i) =
              <<<<Step("success", TRUE, Map1("a", "1"))>>, ExampleSteps, AnswerSteps>>
        /\ inv[i].output = Logged(Map1("a", "1"))
        /\ inv[i].outcome = "Completed"

\* the invocation has ended on a rejected fetch, and the fetch it was
\* awaiting, the last it sent, was the dispatch
DispatchFailed(i) ==
    /\ inv[i].outcome = "FetchRejected"
    /\ calls[i] # <<>>
    /\ Last(calls[i]).op = "dispatch"

\* C21: a dispatch that fails with a transport error ends the invocation:
\* the rejection is the end of pluginDispatch, the call log holds the one
\* dispatch and no run listing, status check or job fetch, and from then on
\* the invocation sends nothing, the dispatch included.
C21_FailedDispatchEndsInvocation ==
    /\ [](\A i \in Invocations :
            DispatchFailed(i) =>
                /\ pc[i] = "done"
                /\ inv[i].ret = NoValue("threw")
                /\ calls[i] = <<Call("dispatch", inv[i].eventType)>>
                /\ \A op \in RemoteCalls \ {"dispatch"} : Count(i, op) = 0
                /\ ~inv[i].located.returned
                /\ observed[i] = <<>>
                /\ ~inv[i].output.logged)
    /\ [][\A i \in Invocations :
            (pc[i] = "dispatch" /\ inv'[i].outcome = "FetchRejected") =>
                (pc'[i] = "done" /\ calls'[i] = calls[i])]_vars
    /\ [][\A i \in Invocations :
            DispatchFailed(i) =>
                (pc'[i] = "done" /\ calls'[i] = calls[i] /\ inv'[i] = inv[i])]_vars

\* the dispatch of "/help" has been rejected: the invocation has ended having
\* sent nothing else
C21_Witness ==
    \E i \in DOMAIN pc :
        /\ DispatchFailed(i)
        /\ inv[i].body = HelpMenu.command
        /\ pc[i] = "done"
        /\ calls[i] = <<Call("dispatch", HelpEvent)>>

\* the run the invocation's dispatch caused was in the listing, still queued
OwnRunListedQueued(i) ==
    \E k \in 1..Len(inv[i].workflow_runs) :
        /\ inv[i].workflow_runs[k].cause = i
        /\ inv[i].workflow_runs[k].status = "queued"

\* the run the invocation's dispatch caused, as the remote holds it now
OwnRunNow(i) == runs[CHOOSE k \in CausedBy(i) : TRUE]

Trace(r) == [k \in 1..Len(calls[r]) |-> calls[r][k].op]

ChecksPassed ==
    <<Call("contentType", TRUE), Call("schema", TRUE), Call("verifySignature", TRUE)>>

\* a check of the request has failed
CheckFailed(r) ==
    \E k \in 1..Len(calls[r]) :
        /\ calls[r][k].op \in {"contentType", "schema", "verifySignature"}
        /\ calls[r][k].arg = FALSE

\* C23: in the plugin server, handler is called for a POST / only after the
\* content-type check, the schema validation of the body and the signature
\* verification have passed, in this order, and at most once; a request that
\* fails one of the three is answered with 400 and handler is not called for
\* it; when handler returns the response is the JSON of the request's own
\* stateId and handler's output; when handler throws the response is a 500.
C23_HandlerOnlyAfterThreeChecks ==
    \A r \in Requests :
        LET request == inv[r].request
        IN  /\ Count(r, "handler") <= 1
            /\ Count(r, "handler") = 1 =>
                  /\ SubSeq(calls[r], 1, 3) = ChecksPassed
                  /\ calls[r][4] = Call("handler", request.body["stateId"].value)
                  /\ request.contentType = "application/json"
                  /\ request.parses
                  /\ SchemaErrors(request.body) = {}
            /\ CheckFailed(r) =>
                  /\ pc[r] = "done"
                  /\ inv[r].response = ErrorResponse(400)
                  /\ Count(r, "handler") = 0
            /\ (pc[r] # "idle" /\ request.contentType # "application/json") =>
                  /\ Trace(r) = <<"contentType">>
                  /\ inv[r].response.status = 400
            /\ (pc[r] \notin {"idle", "json"} /\ request.contentType = "application/json"
                    /\ request.parses /\ SchemaErrors(request.body) # {}) =>
                  /\ Trace(r) = <<"contentType", "schema">>
                  /\ inv[r].response.status = 400
            /\ inv[r].response.status = 400 => CheckFailed(r)
            /\ Count(r, "returned") = 1 =>
                  /\ Trace(r) = <<"contentType", "schema", "verifySignature",
                                  "handler", "returned">>
                  /\ inv[r].response =
                        JsonResponse(request.body["stateId"].value, Last(calls[r]).arg)
            /\ inv[r].response.status = 200 => Count(r, "returned") = 1
            /\ (Count(r, "threw") = 1 /\ pc[r] = "done") =>
                  inv[r].response = ErrorResponse(500)
            /\ Count(r, "threw") = 1 =>
                  /\ Count(r, "handler") = 1
                  /\ Count(r, "returned") = 0
                  /\ pc[r] \in {"postComment", "done"}

\* a request with state id s2 has passed the three checks and handler has
\* returned {a: 1}: the response is 200 with s2 and {a: 1}
C23_Witness ==
    \E r \in DOMAIN pc :
        /\ pc[r] = "done"
        /\ Trace(r) = <<"contentType", "schema", "verifySignature", "handler", "returned">>
        /\ inv[r].response = JsonResponse("s2", Defined(Map1("a", "1")))

-----------------------------------------------------------------------------
\* the comments the invocation of comment c posted
Replies(c) == {n \in Thread : pc[n] # "absent" /\ inv[n].inReplyTo = c}

AuthorType(c) == inv[c].payload.comment.user.type

\* C24: handleIssueCommentCreated never calls createComment for a comment
\* whose author is of type "Bot"; for a comment of any other author it calls
\* createComment exactly once, with the fixed body, and at most one comment
\* comes of it (exactly one once the call has resolved); so no comment is
\* ever posted in reply to a comment of type "Bot", the worker's own
\* comments included.
C24_BotCommentsAreNotAnswered ==
    \A c \in Thread :
        pc[c] # "absent" =>
            /\ AuthorType(c) = "Bot" =>
                  /\ Count(c, "createComment") = 0
                  /\ Replies(c) = {}
                  /\ pc[c] = "done" =>
                        calls[c] = <<Call("console.log", "Skipping bot comment")>>
            /\ (AuthorType(c) # "Bot" /\ pc[c] \in {"createComment", "done"}) =>
                  /\ calls[c] = <<Call("createComment", WorkerBody)>>
                  /\ Cardinality(Replies(c)) <= 1
                  /\ inv[c].outcome = "resolved" <=> Cardinality(Replies(c)) = 1
            /\ inv[c].inReplyTo # 0 =>
                  /\ AuthorType(c) = "Bot"
                  /\ AuthorType(inv[c].inReplyTo) # "Bot"

\* a user's comment was answered once, the event of the answer was skipped,
\* and nothing is left to run
C24_Witness ==
    /\ pc[1] = "done" /\ AuthorType(1) = "User"
    /\ pc[2] = "done" /\ inv[2].inReplyTo = 1
    /\ calls[1] = <<Call("createComment", WorkerBody)>>
    /\ calls[2] = <<Call("console.log", "Skipping bot comment")>>
    /\ Replies(2) = {}
    /\ \A c \in Thread : pc[c] \in {"absent", "done"}

=============================================================================
